---- MODULE Spec2Model ----
(***************************************************************************)
(* gitreceipt: the GitHub receipt page.  A username is typed into a form,  *)
(* handleSubmit calls getGitHubStats, which fetches the user profile and   *)
(* the repository list from api.github.com, aggregates them into a stats   *)
(* record and hands it to the view state `data`, from which the receipt is *)
(* rendered.  The repository holds three versions of the page:             *)
(*   "commits"   src/src/app/page.tsx  (commit-search count, serverName)   *)
(*   "languages" src/unnamed/part_001  (top languages, size, fortune)      *)
(*   "size"      src/unnamed/part_000  (size, download and share)          *)
(* JavaScript values are modelled as follows: an object is a record whose  *)
(* DOMAIN is the set of its defined properties (a property that is         *)
(* undefined is absent), null is the record Null, a thrown exception is    *)
(* the record Threw, Math.random() is a fraction num/RandDen.              *)
(***************************************************************************)
EXTENDS Integers, Sequences, FiniteSets, TLC

VARIABLES
    variant,          \* which version of the page is deployed
    tz,               \* the browser's time zone, hours east of UTC
    now,              \* the wall clock, hours since 1970-01-01T00:00Z
    github,           \* what api.github.com holds: [user, repos] of the one account
    username,         \* useState('')   the text of the input
    data,             \* useState(null) the held result
    loading,          \* useState(false)
    error,            \* useState('')
    pc,               \* where the pending handleSubmit is suspended
    arg,              \* the username argument of the pending getGitHubStats call
    userResponse,     \* fetch(users/<arg>)
    reposResponse,    \* fetch(users/<arg>/repos)
    commitsResponse,  \* fetch(search/commits), "commits" variant
    locals,           \* getGitHubStats' locals held across the commit-search await
    sent,             \* the requests issued since the last submission, by endpoint
    toPng,            \* the pending image export of handleDownload
    download,         \* the name of the last file handed to the browser to save
    dispatched,       \* the submit events dispatched on the form with an empty input
    navigatorShare,   \* navigator.share is defined in this browser
    sharing,          \* where the pending handleShare is suspended
    shared,           \* what was last passed to navigator.share
    reported          \* the errors reported on the console

vars == <<variant, tz, now, github, username, data, loading, error, pc, arg,
          userResponse, reposResponse, commitsResponse, locals,
          sent, toPng, download, dispatched,
          navigatorShare, sharing, shared, reported>>

-----------------------------------------------------------------------------
(* Bounds and program constants *)

MaxRepos == 4

\* The largest number of submit events dispatched on the form directly.
MaxDispatched == 2

WeekLength == 7
TopN == 3
KBPerMB == 1024
HoursPerDay == 24
EpochWeekday == 4
Radix == 36
RecentDays == 30
RandDen == Radix * Radix

Variants == {"commits", "languages", "size"}

Null == [isNull |-> TRUE]
IsNull(v) == "isNull" \in DOMAIN v

Threw == [threw |-> TRUE]
HasThrown(v) == "threw" \in DOMAIN v

-----------------------------------------------------------------------------
(* Inputs: what the server can hold *)

Login == "octocat"
Usernames == {"", Login, "ghost"}

Repo(n, st, fk, sz, lang, pushed) ==
    [name |-> n, stargazers_count |-> st, forks_count |-> fk, size |-> sz,
     language |-> lang, pushed_at |-> pushed]

\* pushed_at is in hours since 1970-01-01T00:00Z (a Thursday); language Null is
\* JSON null.
RepoA == Repo("a", 5, 1, 1536, [str |-> "Go"], 4 * 24 + 10)          \* Mon 10:00Z
RepoB == Repo("b", 3, 0, 700, Null, 10 * 24 + 23)                    \* Sun 23:00Z
RepoC == Repo("c", 0, 2, 512, [str |-> "TypeScript"], 9 * 24 + 2)    \* Sat 02:00Z
RepoD == Repo("d", 1, 0, 0, [str |-> "Rust"], 3 * 24 + 12)           \* Sun 12:00Z
RepoE == Repo("e", 0, 0, 300, [str |-> "C"], 11 * 24 + 1)            \* Mon 01:00Z
RepoF == Repo("f", 2, 0, 4096, [str |-> "Go"], 9 * 24 + 20)          \* Sat 20:00Z

\* A push the server dates after the browser's clock (now in Init).
RepoG == Repo("g", 1, 0, 512, [str |-> "Go"], 36 * 24 + 2)            \* Fri 02:00Z

AllRepos == {RepoA, RepoB, RepoC, RepoD, RepoE, RepoF}

\* Repository lists of at most MaxRepos distinct repositories, in any order.
ReposOfLen(n) ==
    {s \in [1..n -> AllRepos] : \A i, j \in 1..n : i # j => s[i] # s[j]}

RepoLists ==
    UNION {ReposOfLen(n) : n \in {k \in 0..MaxRepos : k <= Cardinality(AllRepos)}}

User(followers, following) ==
    [login |-> Login, name |-> Null, followers |-> followers, following |-> following]

Users == {User(10, 2), User(0, 0)}

TimezoneOffsets == {0, 9}

-----------------------------------------------------------------------------
(* getGitHubStats: the aggregation *)

\* reduce with the accumulator overwritten: (acc, repo) => repo[field]
RECURSIVE reduceAssign(_, _, _)
reduceAssign(arr, field, acc) ==
    IF arr = <<>> THEN acc
    ELSE reduceAssign(Tail(arr), field, Head(arr)[field])

\* reposData.reduce((acc, repo) => acc + repo[field], 0)
RECURSIVE reduceSum(_, _, _)
reduceSum(arr, field, acc) ==
    IF arr = <<>> THEN acc
    ELSE reduceSum(Tail(arr), field, acc + Head(arr)[field])

totalStars(reposData) == reduceSum(reposData, "stargazers_count", 0)
totalForks(reposData) == reduceSum(reposData, "forks_count", 0)
totalSize(reposData) == reduceSum(reposData, "size", 0)

\* Math.round(totalSize / 1024): halves round up.
totalSizeMB(reposData) == (2 * totalSize(reposData) + KBPerMB) \div (2 * KBPerMB)

\* new Date(pushed_at).getDay(): the weekday in the browser's time zone, 0 = Sunday.
getDay(pushed_at) ==
    (((pushed_at + tz) \div HoursPerDay) + EpochWeekday) % WeekLength

\* new Array(7).fill(0); pushDays.forEach(day => dayCount[day]++)
RECURSIVE forEachDay(_, _)
forEachDay(arr, counts) ==
    IF arr = <<>> THEN counts
    ELSE forEachDay(Tail(arr),
                    [counts EXCEPT ![getDay(Head(arr).pushed_at)] = @ + 1])

dayCount(reposData) == forEachDay(reposData, [d \in 0..(WeekLength - 1) |-> 0])

\* Math.max(...dayCount)
MathMax(counts) ==
    CHOOSE m \in {counts[d] : d \in DOMAIN counts} :
        \A d \in DOMAIN counts : counts[d] <= m

\* Array.prototype.indexOf: the first index holding v, -1 when there is none.
RECURSIVE indexOfFrom(_, _, _)
indexOfFrom(counts, v, from) ==
    IF from >= WeekLength THEN -1
    ELSE IF counts[from] = v THEN from
    ELSE indexOfFrom(counts, v, from + 1)

\* Array.prototype.lastIndexOf in the place of indexOf.
lastIndexOf(counts, v) ==
    CHOOSE d \in DOMAIN counts :
        counts[d] = v /\ \A e \in DOMAIN counts : counts[e] = v => e <= d

indexOf(counts, v) == indexOfFrom(counts, v, 0)

days == <<"Sunday", "Monday", "Tuesday", "Wednesday", "Thursday", "Friday", "Saturday">>

\* The maximum taken over pushDays in the place of dayCount: Math.max() of
\* no arguments is -Infinity and no day is found.
mostActiveDayOfPushDays(reposData) ==
    IF reposData = <<>> THEN "undefined"
    ELSE days[indexOf(dayCount(reposData), MathMax(dayCount(reposData))) + 1]

mostActiveDay(reposData) ==
    LET counts == dayCount(reposData)
    IN  days[indexOf(counts, MathMax(counts)) + 1]

\* The language list without the filter: null is counted as a name.
languagesUnfiltered(reposData) ==
    [i \in DOMAIN reposData |->
        IF reposData[i].language = Null THEN "null" ELSE reposData[i].language.str]

\* reposData.map(repo => repo.language).filter(lang => lang !== null)
languages(reposData) ==
    LET langs == [i \in DOMAIN reposData |-> reposData[i].language]
        notNull(l) == l # Null
    IN  [i \in DOMAIN SelectSeq(langs, notNull) |-> SelectSeq(langs, notNull)[i].str]

\* languages.reduce((acc, lang) => { acc[lang] = (acc[lang] || 0) + 1 }, {}):
\* the object is kept as its entries <<key, count>> in insertion order, which
\* is the order Object.entries lists string keys in.
RECURSIVE countLangs(_, _)
countLangs(langs, entries) ==
    IF langs = <<>> THEN entries
    ELSE LET lang == Head(langs)
             at == {i \in DOMAIN entries : entries[i][1] = lang}
         IN  countLangs(Tail(langs),
                        IF at = {} THEN Append(entries, <<lang, 1>>)
                        ELSE [i \in DOMAIN entries |->
                                 IF i \in at THEN <<lang, entries[i][2] + 1>>
                                 ELSE entries[i]])

langCount(reposData) == countLangs(languages(reposData), <<>>)

\* A sort that puts an entry ahead of the entries of equal count.
sortInsertUnstable(sorted, e) ==
    LET k == Cardinality({i \in DOMAIN sorted : sorted[i][2] > e[2]})
    IN  SubSeq(sorted, 1, k) \o <<e>> \o SubSeq(sorted, k + 1, Len(sorted))

\* .sort(([,a], [,b]) => b - a): Array.prototype.sort is stable, so an entry
\* goes after every entry whose count is at least its own.
sortInsert(sorted, e) ==
    LET before == {i \in DOMAIN sorted : sorted[i][2] >= e[2]}
        k == Cardinality(before)
    IN  SubSeq(sorted, 1, k) \o <<e>> \o SubSeq(sorted, k + 1, Len(sorted))

RECURSIVE sortFrom(_, _)
sortFrom(entries, sorted) ==
    IF entries = <<>> THEN sorted
    ELSE sortFrom(Tail(entries), sortInsert(sorted, Head(entries)))

sortByCount(entries) == sortFrom(entries, <<>>)

\* .slice(0, 3)
slice(arr) == SubSeq(arr, 1, IF Len(arr) < TopN THEN Len(arr) ELSE TopN)

\* .slice(0, 3).map(([lang]) => lang)
topLanguagesList(reposData) ==
    LET top == slice(sortByCount(langCount(reposData)))
    IN  [i \in DOMAIN top |-> top[i][1]]

\* .join(sep)
RECURSIVE join(_, _)
join(list, sep) ==
    IF list = <<>> THEN ""
    ELSE IF Len(list) = 1 THEN list[1]
    ELSE list[1] \o sep \o join(Tail(list), sep)

topLanguages(reposData) == join(topLanguagesList(reposData), ", ")

\* new Date(); setDate(getDate() - 30); filter(repo => new Date(repo.pushed_at) > thirtyDaysAgo)
recentActivity(reposData) ==
    LET thirtyDaysAgo == now - RecentDays * HoursPerDay
    IN  Cardinality({i \in DOMAIN reposData : reposData[i].pushed_at > thirtyDaysAgo})

-----------------------------------------------------------------------------
(* getGitHubStats: the decorative fields.  Math.random() is rnd / RandDen. *)

RandomNums == {0, RandDen - 1}

FAMOUS_DEVS ==
    IF variant = "commits"
    THEN <<"Linus Torvalds", "Ada Lovelace", "Grace Hopper", "Alan Turing",
           "Margaret Hamilton", "Dennis Ritchie", "Ken Thompson">>
    ELSE <<"Linus Torvalds", "Ada Lovelace", "Grace Hopper", "Alan Turing",
           "Margaret Hamilton">>

FORTUNE_MESSAGES ==
    <<"Your next commit will be bug-free!", "A great PR is in your future!",
      "Today is a good day to refactor!", "Your code will make someone smile!",
      "A mysterious bug will soon reveal itself!">>

\* list[Math.floor(Math.random() * list.length)]
randomElement(list, rnd) == list[((rnd * Len(list)) \div RandDen) + 1]

Digits == <<"0", "1", "2", "3", "4", "5", "6", "7", "8", "9", "a", "b", "c", "d",
            "e", "f", "g", "h", "i", "j", "k", "l", "m", "n", "o", "p", "q", "r",
            "s", "t", "u", "v", "w", "x", "y", "z">>

UpperDigits == <<"0", "1", "2", "3", "4", "5", "6", "7", "8", "9", "A", "B", "C",
                 "D", "E", "F", "G", "H", "I", "J", "K", "L", "M", "N", "O", "P",
                 "Q", "R", "S", "T", "U", "V", "W", "X", "Y", "Z">>

\* The base-36 digits of the fraction num / den, without trailing zeros.
RECURSIVE fractionDigits(_, _)
fractionDigits(num, den) ==
    IF num = 0 THEN <<>>
    ELSE <<Digits[((num * Radix) \div den) + 1]>> \o
         fractionDigits((num * Radix) % den, den)

\* Number.prototype.toString(36) of rnd / RandDen, as its characters.
toString36(rnd) ==
    IF rnd = 0 THEN <<"0">> ELSE <<"0", ".">> \o fractionDigits(rnd, RandDen)

\* String.prototype.substring(from, to), 0-based, to exclusive.
substring(chars, from, to) ==
    SubSeq(chars, from + 1, IF Len(chars) < to THEN Len(chars) ELSE to)

toUpperCase(chars) ==
    [i \in DOMAIN chars |->
        IF \E k \in DOMAIN Digits : Digits[k] = chars[i]
        THEN UpperDigits[CHOOSE k \in DOMAIN Digits : Digits[k] = chars[i]]
        ELSE chars[i]]

\* Math.random().toString(36).substring(2, 8).toUpperCase()
couponCode(rnd) == join(toUpperCase(substring(toString36(rnd), 2, 8)), "")

-----------------------------------------------------------------------------
(* fetch and Response *)

NoRequest == [state |-> "none"]
Pending == [state |-> "pending"]
Rejected == [state |-> "rejected"]
Fulfilled(ok, body) == [state |-> "fulfilled", ok |-> ok, body |-> body]

ArrayBody(items) == [kind |-> "array", value |-> items]
ObjectBody(fields) == [kind |-> "object", value |-> fields]
MalformedBody == [kind |-> "malformed"]
ErrorBody == ObjectBody([message |-> "Not Found"])

\* Response.json(): throws on a body that is not JSON.
json(response) ==
    IF response.body.kind = "malformed" THEN Threw ELSE response.body

\* What api.github.com/users/<name> can answer: the profile of an existing
\* account, an error object with a non-success status (unknown user, rate
\* limit), a body that is not JSON, or no answer at all.
userOutcomes(name) ==
    {Rejected, Fulfilled(FALSE, ErrorBody), Fulfilled(FALSE, MalformedBody),
     Fulfilled(TRUE, MalformedBody)} \cup
    (IF name = github.user.login THEN {Fulfilled(TRUE, ObjectBody(github.user))} ELSE {})

\* What api.github.com/users/<name>/repos can answer.
reposOutcomes(name) ==
    {Rejected, Fulfilled(FALSE, ErrorBody), Fulfilled(FALSE, MalformedBody),
     Fulfilled(TRUE, MalformedBody)} \cup
    (IF name = github.user.login THEN {Fulfilled(TRUE, ArrayBody(github.repos))} ELSE {})

CommitCounts == {0, 42}

\* What api.github.com/search/commits can answer.
commitsOutcomes ==
    {Rejected, Fulfilled(FALSE, ErrorBody), Fulfilled(FALSE, MalformedBody)} \cup
    {Fulfilled(TRUE, ObjectBody([total_count |-> n])) : n \in CommitCounts}

-----------------------------------------------------------------------------
(* getGitHubStats: from the resolution of Promise.all to the return or to   *)
(* the commit-search fetch *)

\* The stats object computed from reposData, by version of the page.
statsOf(reposData, rndName, rndFortune, rndCoupon) ==
    LET common == [totalRepos |-> Len(reposData),
                   totalStars |-> totalStars(reposData),
                   totalForks |-> totalForks(reposData),
                   mostActiveDay |-> mostActiveDay(reposData)]
    IN  CASE variant = "commits" ->
                common @@ [serverName |-> randomElement(FAMOUS_DEVS, rndName)]
          [] variant = "languages" ->
                common @@ [topLanguages |-> topLanguages(reposData),
                           totalSizeMB |-> totalSizeMB(reposData),
                           recentActivity |-> recentActivity(reposData),
                           randomFortune |-> randomElement(FORTUNE_MESSAGES, rndFortune),
                           cashier |-> randomElement(FAMOUS_DEVS, rndName),
                           couponCode |-> couponCode(rndCoupon)]
          [] variant = "size" ->
                common @@ [totalSizeMB |-> totalSizeMB(reposData)]

\* getGitHubStats with a guard around the reduce: a body that is not an array
\* is taken as no repositories.
afterPromiseAllGuarded(rndName, rndFortune, rndCoupon) ==
    IF ~userResponse.ok THEN Threw
    ELSE IF HasThrown(json(userResponse)) THEN Threw
    ELSE IF HasThrown(json(reposResponse)) THEN Threw
    ELSE [userData |-> json(userResponse).value,
          stats |-> statsOf(IF json(reposResponse).kind = "array"
                            THEN json(reposResponse).value ELSE <<>>,
                            rndName, rndFortune, rndCoupon)]

\* getGitHubStats without the test of userResponse.ok.
afterPromiseAllUnchecked(rndName, rndFortune, rndCoupon) ==
    IF HasThrown(json(userResponse)) THEN Threw
    ELSE IF HasThrown(json(reposResponse)) THEN Threw
    ELSE IF json(reposResponse).kind # "array" THEN Threw
    ELSE [userData |-> json(userResponse).value,
          stats |-> statsOf(json(reposResponse).value, rndName, rndFortune, rndCoupon)]

\* if (!userResponse.ok) throw; userResponse.json(); reposResponse.json();
\* reposData.reduce(...) is a TypeError on anything but an array.
afterPromiseAll(rndName, rndFortune, rndCoupon) ==
    IF ~userResponse.ok THEN Threw
    ELSE IF HasThrown(json(userResponse)) THEN Threw
    ELSE IF HasThrown(json(reposResponse)) THEN Threw
    ELSE IF json(reposResponse).kind # "array" THEN Threw
    ELSE [userData |-> json(userResponse).value,
          stats |-> statsOf(json(reposResponse).value, rndName, rndFortune, rndCoupon)]

\* commitsResponse.json(); totalCommits = commitsData.total_count
afterCommits ==
    IF HasThrown(json(commitsResponse)) THEN Threw
    ELSE LET commitsData == json(commitsResponse).value
         IN  [userData |-> locals.userData,
              stats |-> locals.stats @@
                        (IF "total_count" \in DOMAIN commitsData
                         THEN [totalCommits |-> commitsData.total_count]
                         ELSE <<>>)]

-----------------------------------------------------------------------------
(* Home: the view state and its handlers *)

LookupFailed == "User not found"

\* <button type="submit" disabled={!username || loading}>
submitDisabledWhenEmpty == username = ""

submitDisabled == username = "" \/ loading

\* onChange={(e) => setUsername(e.target.value)}
setUsername(u) ==
    /\ u # username
    /\ username' = u
    /\ UNCHANGED <<variant, tz, now, github, data, loading, error, pc, arg,
                   userResponse, reposResponse, commitsResponse, locals,
                   sent, toPng, download, dispatched,
                   navigatorShare, sharing, shared, reported>>

NoneSent == [user |-> 0, repos |-> 0, commits |-> 0]

\* handleSubmit without the return on an empty username.
handleSubmitUnguarded ==
    /\ loading' = TRUE
    /\ error' = ""
    /\ arg' = username
    /\ userResponse' = Pending
    /\ reposResponse' = Pending
    /\ commitsResponse' = NoRequest
    /\ locals' = Null
    /\ pc' = "awaitAll"
    /\ sent' = [user |-> 1, repos |-> 1, commits |-> 0]
    /\ UNCHANGED <<variant, tz, now, github, username, data, toPng, download,
                   navigatorShare, sharing, shared, reported>>

\* handleSubmit up to its first await: if (!username) return; otherwise the
\* two fetches are issued.
handleSubmit ==
    /\ IF username = ""
       THEN UNCHANGED <<loading, error, arg, userResponse, reposResponse,
                        commitsResponse, locals, pc, sent>>
       ELSE /\ loading' = TRUE
            /\ error' = ""
            /\ arg' = username
            /\ userResponse' = Pending
            /\ reposResponse' = Pending
            /\ commitsResponse' = NoRequest
            /\ locals' = Null
            /\ pc' = "awaitAll"
            /\ sent' = [user |-> 1, repos |-> 1, commits |-> 0]
    /\ UNCHANGED <<variant, tz, now, github, username, data, toPng, download,
                   navigatorShare, sharing, shared, reported>>

\* The form is submitted with the button, or with Enter while the button is
\* enabled: <form onSubmit={handleSubmit}>.
submitForm ==
    /\ ~submitDisabled
    /\ handleSubmit
    /\ UNCHANGED dispatched

\* The catch clause showing the caught error's own message: setError(err.message)
catchFinallyMessage ==
    /\ error' = IF /\ userResponse.state = "fulfilled"
                   /\ reposResponse.state = "fulfilled"
                   /\ ~userResponse.ok
                THEN LookupFailed ELSE "Failed to fetch"
    /\ loading' = FALSE
    /\ pc' = "idle"
    /\ UNCHANGED <<data, locals>>

\* The catch clause without the finally clause: loading is left set.
catchWithoutFinally ==
    /\ error' = LookupFailed
    /\ pc' = "idle"
    /\ UNCHANGED <<data, locals, loading>>

\* catch (err) { setError('User not found') } finally { setLoading(false) }
catchFinally ==
    /\ error' = LookupFailed
    /\ loading' = FALSE
    /\ pc' = "idle"
    /\ UNCHANGED <<data, locals>>

\* The profile of the result installed over the stats already held.
setDataMerged(stats) ==
    /\ data' = IF IsNull(data) THEN stats
               ELSE [userData |-> stats.userData, stats |-> data.stats]
    /\ loading' = FALSE
    /\ pc' = "idle"
    /\ UNCHANGED <<error, locals>>

\* setData(stats); finally { setLoading(false) }
setDataFinally(stats) ==
    /\ data' = stats
    /\ loading' = FALSE
    /\ pc' = "idle"
    /\ UNCHANGED <<error, locals>>

userFetchSettles(outcome) ==
    /\ userResponse = Pending
    /\ outcome \in userOutcomes(arg)
    /\ userResponse' = outcome
    /\ UNCHANGED <<variant, tz, now, github, username, data, loading, error, pc,
                   arg, reposResponse, commitsResponse, locals,
                   sent, toPng, download, dispatched,
                   navigatorShare, sharing, shared, reported>>

reposFetchSettles(outcome) ==
    /\ reposResponse = Pending
    /\ outcome \in reposOutcomes(arg)
    /\ reposResponse' = outcome
    /\ UNCHANGED <<variant, tz, now, github, username, data, loading, error, pc,
                   arg, userResponse, commitsResponse, locals,
                   sent, toPng, download, dispatched,
                   navigatorShare, sharing, shared, reported>>

commitsFetchSettles(outcome) ==
    /\ commitsResponse = Pending
    /\ outcome \in commitsOutcomes
    /\ commitsResponse' = outcome
    /\ UNCHANGED <<variant, tz, now, github, username, data, loading, error, pc,
                   arg, userResponse, reposResponse, locals,
                   sent, toPng, download, dispatched,
                   navigatorShare, sharing, shared, reported>>

\* Promise.all rejects as soon as one of the two fetches rejects.
\* A rejected fetch issued again instead of failing the lookup.
promiseAllRetried ==
    /\ pc = "awaitAll"
    /\ userResponse = Rejected \/ reposResponse = Rejected
    /\ userResponse' = IF userResponse = Rejected THEN Pending ELSE userResponse
    /\ reposResponse' = IF reposResponse = Rejected THEN Pending ELSE reposResponse
    /\ sent' = [sent EXCEPT !.user = IF userResponse = Rejected THEN @ + 1 ELSE @,
                            !.repos = IF reposResponse = Rejected THEN @ + 1 ELSE @]
    /\ UNCHANGED <<variant, tz, now, github, username, data, loading, error, pc, arg,
                   commitsResponse, locals, toPng, download, dispatched,
                   navigatorShare, sharing, shared, reported>>

promiseAllRejected ==
    /\ pc = "awaitAll"
    /\ userResponse = Rejected \/ reposResponse = Rejected
    /\ catchFinally
    /\ UNCHANGED <<variant, tz, now, github, username, arg,
                   userResponse, reposResponse, commitsResponse,
                   sent, toPng, download, dispatched,
                   navigatorShare, sharing, shared, reported>>

\* Promise.all resolves once both fetches are fulfilled; getGitHubStats runs
\* on to its return or, in the "commits" version, to the commit-search fetch.
promiseAllFulfilled(rndName, rndFortune, rndCoupon) ==
    /\ pc = "awaitAll"
    /\ userResponse.state = "fulfilled"
    /\ reposResponse.state = "fulfilled"
    /\ LET result == afterPromiseAll(rndName, rndFortune, rndCoupon)
       IN  IF HasThrown(result)
           THEN catchFinally /\ UNCHANGED <<commitsResponse, sent>>
           ELSE IF variant = "commits"
           THEN /\ pc' = "awaitCommits"
                /\ commitsResponse' = Pending
                /\ sent' = [sent EXCEPT !.commits = @ + 1]
                /\ locals' = result
                /\ UNCHANGED <<data, loading, error>>
           ELSE setDataFinally(result) /\ UNCHANGED <<commitsResponse, sent>>
    /\ UNCHANGED <<variant, tz, now, github, username, arg, userResponse, reposResponse,
                   toPng, download, dispatched,
                   navigatorShare, sharing, shared, reported>>

\* The commit-search fetch has settled; getGitHubStats runs on to its return.
commitsSettled ==
    /\ pc = "awaitCommits"
    /\ commitsResponse.state \in {"rejected", "fulfilled"}
    /\ IF commitsResponse = Rejected THEN catchFinally
       ELSE IF HasThrown(afterCommits) THEN catchFinally
       ELSE setDataFinally(afterCommits)
    /\ UNCHANGED <<variant, tz, now, github, username, arg,
                   userResponse, reposResponse, commitsResponse,
                   sent, toPng, download, dispatched,
                   navigatorShare, sharing, shared, reported>>

\* The receipt is on the page ({data && ...}), and with it receiptRef.current
\* and the Download and Share buttons.
receiptRendered == ~IsNull(data)

\* The file name built from the content of the username input.
downloadNameOfInput(d) ==
    "github-receipt-" \o (IF username = "" THEN "user" ELSE username) \o ".png"

\* `github-receipt-${data?.userData?.login || 'user'}.png`
downloadName(d) ==
    "github-receipt-" \o
    (IF IsNull(d) \/ "login" \notin DOMAIN d.userData \/ d.userData.login = ""
     THEN "user" ELSE d.userData.login) \o
    ".png"

\* What a handler created in a render with data d reads of d after its
\* await: data?.userData?.login. The value is immutable, so it is the one of
\* the receipt that was clicked on.
closure(d) ==
    IF IsNull(d) THEN d
    ELSE [userData |-> IF "login" \in DOMAIN d.userData
                       THEN [login |-> d.userData.login] ELSE <<>>]

\* handleDownload of a render with data d, up to the await of toPng:
\* if (receiptRef.current) { await toPng(...) ... }
handleDownload(d) ==
    toPng' = IF receiptRendered THEN [name |-> downloadName(d)] ELSE toPng

\* A click on Download, rendered with the receipt. The button of the version
\* with languages has an empty handler. One export is followed at a time.
clickDownload ==
    /\ receiptRendered
    /\ variant # "languages"
    /\ toPng = Null
    /\ handleDownload(closure(data))
    /\ UNCHANGED <<variant, tz, now, github, username, data, loading, error, pc, arg,
                   userResponse, reposResponse, commitsResponse, locals,
                   sent, download, dispatched,
                   navigatorShare, sharing, shared, reported>>

UncaughtInPromise == "Uncaught (in promise)"

\* toPng of handleDownload settles: with the image the link is clicked and
\* the file is saved under link.download; a rejection rejects the promise of
\* handleDownload, which has no handler, and nothing is saved.
toPngSettles(fulfilled) ==
    /\ toPng # Null
    /\ toPng' = Null
    /\ download' = IF fulfilled THEN [name |-> toPng.name] ELSE download
    /\ reported' = IF fulfilled THEN reported ELSE reported \cup {UncaughtInPromise}
    /\ UNCHANGED <<variant, tz, now, github, username, data, loading, error, pc, arg,
                   userResponse, reposResponse, commitsResponse, locals,
                   sent, dispatched, navigatorShare, sharing, shared>>

ErrorSharing == "Error sharing:"

\* `Check out my GitHub stats for ${data?.userData?.login}!`
shareText(d) ==
    "Check out my GitHub stats for " \o
    (IF IsNull(d) \/ "login" \notin DOMAIN d.userData
     THEN "undefined" ELSE d.userData.login) \o
    "!"

\* navigator.share({title, text, files: [file]}) of a render with data d
shareData(d) ==
    [title |-> "My GitHub Receipt", text |-> shareText(d),
     files |-> <<"github-receipt.png">>]

\* A click on Share, rendered with the receipt, up to the await of toPng:
\* if (!receiptRef.current) return. One share is followed at a time.
handleShare ==
    /\ receiptRendered
    /\ variant # "languages"
    /\ sharing = Null
    /\ sharing' = [step |-> "toPng", closure |-> closure(data)]
    /\ UNCHANGED <<variant, tz, now, github, username, data, loading, error, pc, arg,
                   userResponse, reposResponse, commitsResponse, locals,
                   sent, toPng, download, dispatched,
                   navigatorShare, shared, reported>>

\* The export of handleShare (toPng, fetch(dataUrl), blob()) settles. A
\* failure goes to the catch clause. With the image: navigator.share is
\* called if it is defined, otherwise handleDownload(), which is not awaited.
shareExported(fulfilled) ==
    /\ sharing # Null
    /\ sharing.step = "toPng"
    /\ IF ~fulfilled
       THEN /\ sharing' = Null
            /\ reported' = reported \cup {ErrorSharing}
            /\ UNCHANGED <<shared, toPng>>
       ELSE IF navigatorShare
       THEN /\ sharing' = [sharing EXCEPT !.step = "share"]
            /\ shared' = shareData(sharing.closure)
            /\ UNCHANGED <<reported, toPng>>
       ELSE /\ toPng = Null
            /\ handleDownload(sharing.closure)
            /\ sharing' = Null
            /\ UNCHANGED <<shared, reported>>
    /\ UNCHANGED <<variant, tz, now, github, username, data, loading, error, pc, arg,
                   userResponse, reposResponse, commitsResponse, locals,
                   sent, download, dispatched, navigatorShare>>

\* navigator.share settles; a rejection (the sheet dismissed, files not
\* accepted) goes to the catch clause.
shareSettles(fulfilled) ==
    /\ sharing # Null
    /\ sharing.step = "share"
    /\ sharing' = Null
    /\ reported' = IF fulfilled THEN reported ELSE reported \cup {ErrorSharing}
    /\ UNCHANGED <<variant, tz, now, github, username, data, loading, error, pc, arg,
                   userResponse, reposResponse, commitsResponse, locals,
                   sent, toPng, download, dispatched, navigatorShare, shared>>

\* A submit event dispatched on the form while the input is empty, which the
\* disabled button does not produce.
dispatchSubmit ==
    /\ username = ""
    /\ dispatched < MaxDispatched
    /\ dispatched' = dispatched + 1
    /\ handleSubmit

-----------------------------------------------------------------------------
(* Home: what is rendered *)

\* {obj[key]}: nothing is rendered for an undefined value.
line(label, obj, key) == IF key \in DOMAIN obj THEN label :> obj[key] ELSE <<>>

\* The score with the two weights exchanged.
contributionScoreSwapped(st, u) == st.totalStars * 3 + u.followers * 2

\* {data.stats.totalStars * 2 + data.userData.followers * 3}
contributionScore(st, u) == st.totalStars * 2 + u.followers * 3

\* The lines of the receipt the JSX renders, with the value each one shows.
receipt ==
    LET u == data.userData
        st == data.stats
    IN  ("CUSTOMER" :> (IF u.name = Null THEN u.login ELSE u.name)) @@
        line("REPOSITORIES", st, "totalRepos") @@
        line("STARS EARNED", st, "totalStars") @@
        line("REPO FORKS", st, "totalForks") @@
        line("FOLLOWERS", u, "followers") @@
        line("FOLLOWING", u, "following") @@
        ("TOP LANGUAGES" :> (IF "topLanguages" \in DOMAIN st /\ st.topLanguages # ""
                             THEN st.topLanguages ELSE "NONE")) @@
        line("MOST ACTIVE DAY", st, "mostActiveDay") @@
        (IF variant = "commits" THEN line("COMMITS (30d)", st, "totalCommits")
         ELSE line("TOTAL SIZE", st, "totalSizeMB")) @@
        ("CONTRIBUTION SCORE" :> contributionScore(st, u)) @@
        (IF variant = "commits" THEN line("Served by", st, "serverName")
         ELSE line("Served by", st, "cashier") @@
              line("FORTUNE", st, "randomFortune") @@
              line("COUPON CODE", st, "couponCode"))

\* The lines the JSX of each version has a slot for.
receiptLines ==
    {"CUSTOMER", "REPOSITORIES", "STARS EARNED", "REPO FORKS", "FOLLOWERS",
     "FOLLOWING", "TOP LANGUAGES", "MOST ACTIVE DAY", "CONTRIBUTION SCORE",
     "Served by"} \cup
    (IF variant = "commits" THEN {"COMMITS (30d)"}
     ELSE {"TOTAL SIZE", "FORTUNE", "COUPON CODE"})

\* The texts on the page: the static ones, the input's value and the texts of
\* the receipt.
renderedTexts ==
    {"GitHub Receipt", "Generate a receipt-style summary of your GitHub profile",
     "Generate", username} \cup
    (IF IsNull(data) THEN {}
     ELSE {receipt[l] : l \in DOMAIN receipt \cap
              {"CUSTOMER", "TOP LANGUAGES", "MOST ACTIVE DAY", "Served by",
               "FORTUNE", "COUPON CODE"}})

\* What the page shows: the form, the spinner ({loading && ...}) and the
\* receipt ({data && ...}).
view ==
    [input |-> username,
     submitDisabled |-> submitDisabled,
     spinner |-> loading,
     receipt |-> IF IsNull(data) THEN Null ELSE receipt]

-----------------------------------------------------------------------------
(* Specifications *)

\* The page as loaded, against an account with one of a few repository lists.
Fixtures ==
    {l \in {<<>>, <<RepoA, RepoB>>, <<RepoC, RepoG, RepoF, RepoA>>} : Len(l) <= MaxRepos}

InitView ==
    /\ username = ""
    /\ data = Null
    /\ loading = FALSE
    /\ error = ""
    /\ pc = "idle"
    /\ arg = ""
    /\ userResponse = NoRequest
    /\ reposResponse = NoRequest
    /\ commitsResponse = NoRequest
    /\ locals = Null
    /\ sent = NoneSent
    /\ toPng = Null
    /\ download = Null
    /\ dispatched = 0
    /\ sharing = Null
    /\ shared = Null
    /\ reported = {}

Init ==
    /\ navigatorShare = FALSE
    /\ variant \in Variants
    /\ tz \in TimezoneOffsets
    /\ now = 35 * HoursPerDay
    /\ github \in [user : {User(10, 2)}, repos : Fixtures]
    /\ InitView

Next ==
    \/ \E u \in Usernames : setUsername(u)
    \/ submitForm
    \/ \E o \in userOutcomes(arg) : userFetchSettles(o)
    \/ \E o \in reposOutcomes(arg) : reposFetchSettles(o)
    \/ promiseAllRejected
    \/ \E r1, r2, r3 \in RandomNums : promiseAllFulfilled(r1, r2, r3)
    \/ \E o \in commitsOutcomes : commitsFetchSettles(o)
    \/ commitsSettled
    \/ clickDownload
    \/ \E fulfilled \in BOOLEAN : toPngSettles(fulfilled)

Spec == Init /\ [][Next]_vars

\* The lookups of the page alone, against one account in one time zone.
InitLive ==
    /\ navigatorShare = FALSE
    /\ variant \in Variants
    /\ tz = 0
    /\ now = 35 * HoursPerDay
    /\ github = [user |-> User(10, 2), repos |-> <<RepoA, RepoB>>]
    /\ InitView

NextLive ==
    \/ \E u \in Usernames : setUsername(u)
    \/ submitForm
    \/ \E o \in userOutcomes(arg) : userFetchSettles(o)
    \/ \E o \in reposOutcomes(arg) : reposFetchSettles(o)
    \/ promiseAllRejected
    \/ \E r1, r2, r3 \in RandomNums : promiseAllFulfilled(r1, r2, r3)
    \/ \E o \in commitsOutcomes : commitsFetchSettles(o)
    \/ commitsSettled

\* Every fetch is answered or fails in the end, and the continuation of a
\* settled promise is run.
Fairness ==
    /\ WF_vars(\E o \in userOutcomes(arg) : userFetchSettles(o))
    /\ WF_vars(\E o \in reposOutcomes(arg) : reposFetchSettles(o))
    /\ WF_vars(\E o \in commitsOutcomes : commitsFetchSettles(o))
    /\ WF_vars(promiseAllRejected)
    /\ WF_vars(\E r1, r2, r3 \in RandomNums : promiseAllFulfilled(r1, r2, r3))
    /\ WF_vars(commitsSettled)

SpecLive == InitLive /\ [][NextLive]_vars /\ Fairness

\* The receipt downloaded and shared, in a browser with or without
\* navigator.share, against one account in one time zone.
InitShare ==
    /\ navigatorShare \in BOOLEAN
    /\ variant \in Variants \ {"languages"}
    /\ tz = 0
    /\ now = 35 * HoursPerDay
    /\ github = [user |-> User(10, 2), repos |-> <<RepoA, RepoB>>]
    /\ InitView

NextShare ==
    \/ NextLive
    \/ clickDownload
    \/ \E fulfilled \in BOOLEAN : toPngSettles(fulfilled)
    \/ handleShare
    \/ \E fulfilled \in BOOLEAN : shareExported(fulfilled)
    \/ \E fulfilled \in BOOLEAN : shareSettles(fulfilled)

SpecShare == InitShare /\ [][NextShare]_vars

\* The page with submit events also dispatched on the form while the input is
\* empty.
NextEvents ==
    \/ Next
    \/ dispatchSubmit

SpecEvents == Init /\ [][NextEvents]_vars

\* The aggregation applied to every repository list of at most MaxRepos
\* repositories: the account's name is typed in and every request succeeds.
InitAgg ==
    /\ variant \in Variants
    /\ tz \in TimezoneOffsets
    /\ now = 35 * HoursPerDay
    /\ github \in [user : Users, repos : RepoLists]
    /\ username = Login
    /\ data = Null
    /\ loading = FALSE
    /\ error = ""
    /\ pc = "idle"
    /\ arg = ""
    /\ userResponse = NoRequest
    /\ reposResponse = NoRequest
    /\ commitsResponse = NoRequest
    /\ locals = Null
    /\ sent = NoneSent
    /\ toPng = Null
    /\ download = Null
    /\ dispatched = 0
    /\ navigatorShare = FALSE
    /\ sharing = Null
    /\ shared = Null
    /\ reported = {}

NextAgg ==
    \/ submitForm
    \/ userFetchSettles(Fulfilled(TRUE, ObjectBody(github.user)))
    \/ reposFetchSettles(Fulfilled(TRUE, ArrayBody(github.repos)))
    \/ promiseAllFulfilled(0, 0, 0)
    \/ commitsFetchSettles(Fulfilled(TRUE, ObjectBody([total_count |-> 42])))
    \/ commitsSettled

SpecAgg == InitAgg /\ [][NextAgg]_vars

-----------------------------------------------------------------------------
(* Properties *)

\* The sum of field over the repositories of a list, taken over the set of
\* its positions in no particular order.
RECURSIVE SumOver(_, _, _)
SumOver(list, field, positions) ==
    IF positions = {} THEN 0
    ELSE LET i == CHOOSE k \in positions : TRUE
         IN  list[i][field] + SumOver(list, field, positions \ {i})

FieldSum(list, field) == SumOver(list, field, DOMAIN list)

\* The orderings of a repository list.
Orderings(list) ==
    {[i \in DOMAIN list |-> list[p[i]]] : p \in Permutations(DOMAIN list)}

Displayed == ~IsNull(data)

\* A lookup has returned and its result is held.
Settled == pc = "idle" /\ ~IsNull(data)

\* C1: the contribution score on the receipt is 2*totalStars + 3*followers,
\* with totalStars the star total of the repositories of the same lookup and
\* followers the follower count of its profile.
C1_ContributionScore ==
    Displayed =>
        /\ data.stats.totalStars = FieldSum(github.repos, "stargazers_count")
        /\ view.receipt["CONTRIBUTION SCORE"] =
               2 * data.stats.totalStars + 3 * github.user.followers

\* C1 witness: followers 10 and repositories of 5 and 3 stars give 46.
C1_Witness ==
    /\ Displayed
    /\ github.user.followers = 10
    /\ github.repos = <<RepoA, RepoB>>
    /\ data.stats.totalStars = 8
    /\ view.receipt["CONTRIBUTION SCORE"] = 46

\* C2: totalStars and totalForks are the sums of the star and fork counts of
\* the repositories, and every ordering of the list gives the same totals.
C2_TotalsAreSums ==
    Displayed =>
        /\ data.stats.totalStars = FieldSum(github.repos, "stargazers_count")
        /\ data.stats.totalForks = FieldSum(github.repos, "forks_count")
        /\ Settled =>
              \A l \in Orderings(github.repos) :
                  /\ totalStars(l) = data.stats.totalStars
                  /\ totalForks(l) = data.stats.totalForks

\* C2 witness: a list of four repositories with different counts is summed.
C2_Witness ==
    /\ Displayed
    /\ github.repos = <<RepoC, RepoA, RepoF, RepoB>>
    /\ data.stats.totalStars = 10
    /\ data.stats.totalForks = 3

\* The number of repositories of a list last pushed on weekday d, the weekday
\* being taken zone hours east of UTC.
PushesOn(list, d, zone) ==
    Cardinality({i \in DOMAIN list :
        (((list[i].pushed_at + zone) \div HoursPerDay) + EpochWeekday) % WeekLength = d})

\* The lowest weekday among those with the highest count.
BusiestDay(list, zone) ==
    CHOOSE d \in 0..(WeekLength - 1) :
        /\ \A e \in 0..(WeekLength - 1) : PushesOn(list, e, zone) <= PushesOn(list, d, zone)
        /\ \A e \in 0..(d - 1) : PushesOn(list, e, zone) < PushesOn(list, d, zone)

\* C3 as stated: the most-active day is the lowest weekday with the highest
\* count of last pushes, and it is the same on every run for the same
\* repositories, whatever the order of the list and wherever the page runs.
C3_SameOnEveryRun ==
    Displayed =>
        \A zone \in TimezoneOffsets :
            data.stats.mostActiveDay = days[BusiestDay(github.repos, zone) + 1]

\* C3 amended: the most-active day is the lowest weekday with the highest
\* count of last pushes, the weekday of a push being taken in the time zone
\* of the browser, and it is the same for every ordering of the list.
C3_LowestBusiestDay ==
    Displayed =>
        /\ data.stats.mostActiveDay = days[BusiestDay(github.repos, tz) + 1]
        /\ Settled =>
              \A l \in Orderings(github.repos) :
                  mostActiveDay(l) = data.stats.mostActiveDay

\* C3 witness: Saturday, met first, and Monday tie with two pushes each, and
\* Monday, the earlier weekday, is chosen.
C3_Witness ==
    /\ Displayed
    /\ tz = 0
    /\ github.repos = <<RepoC, RepoF, RepoA, RepoE>>
    /\ data.stats.mostActiveDay = "Monday"

\* The non-null primary languages of a repository list.
LanguagesOf(list) ==
    {list[i].language.str : i \in {k \in DOMAIN list : list[k].language # Null}}

\* The lists of at most TopN different languages of a repository list.
LanguageLists(list) ==
    {l \in UNION {[1..n -> LanguagesOf(list)] : n \in 0..TopN} :
        \A i, j \in DOMAIN l : i # j => l[i] # l[j]}

\* C4: for an empty repository list the lookup completes without error, the
\* repository, star, fork and size totals are 0 and the most-active day is
\* the name of a weekday.
C4_EmptyList ==
    (/\ pc = "idle"
     /\ userResponse = Fulfilled(TRUE, ObjectBody(github.user))
     /\ reposResponse = Fulfilled(TRUE, ArrayBody(<<>>))
     /\ variant = "commits" =>
            commitsResponse.state = "fulfilled" /\ commitsResponse.body.kind = "object")
    => /\ error = ""
       /\ Displayed
       /\ data.stats.totalRepos = 0
       /\ data.stats.totalStars = 0
       /\ data.stats.totalForks = 0
       /\ variant # "commits" => data.stats.totalSizeMB = 0
       /\ \E d \in DOMAIN days : data.stats.mostActiveDay = days[d]

\* C4 witness: the receipt of an account without repositories is held.
C4_Witness ==
    /\ pc = "idle"
    /\ variant = "languages"
    /\ reposResponse = Fulfilled(TRUE, ArrayBody(<<>>))
    /\ Displayed
    /\ data.stats.totalRepos = 0
    /\ data.stats.mostActiveDay = "Sunday"

\* C5: the top-language list has at most 3 entries, each the non-null
\* primary language of a repository of the list, none of them twice.
C5_TopLanguagesBounded ==
    (Displayed /\ variant = "languages") =>
        \E l \in LanguageLists(github.repos) : data.stats.topLanguages = join(l, ", ")

\* C5 witness: four languages and a repository without one; three are listed.
C5_Witness ==
    /\ Displayed
    /\ variant = "languages"
    /\ github.repos = <<RepoB, RepoE, RepoA, RepoC>>
    /\ data.stats.topLanguages = "C, Go, TypeScript"

\* The number of repositories of a list whose language is lang, and the
\* position of the first of them.
CountOf(list, lang) ==
    Cardinality({i \in DOMAIN list : list[i].language = [str |-> lang]})

FirstOf(list, lang) ==
    CHOOSE i \in DOMAIN list :
        /\ list[i].language = [str |-> lang]
        /\ \A k \in 1..(i - 1) : list[k].language # [str |-> lang]

\* a ranks before b: more repositories, or as many and met earlier.
RanksBefore(list, a, b) ==
    \/ CountOf(list, a) > CountOf(list, b)
    \/ CountOf(list, a) = CountOf(list, b) /\ FirstOf(list, a) < FirstOf(list, b)

\* C6: the top-language list is in descending order of repository count,
\* languages of equal count in the order they are first met, and a language
\* is left out only if three languages rank before it.
C6_TopLanguagesOrder ==
    (Displayed /\ variant = "languages") =>
        \E l \in LanguageLists(github.repos) :
            /\ data.stats.topLanguages = join(l, ", ")
            /\ \A i, j \in DOMAIN l : i < j => RanksBefore(github.repos, l[i], l[j])
            /\ \A lang \in LanguagesOf(github.repos) :
                  (\A i \in DOMAIN l : l[i] # lang) =>
                      /\ Len(l) = TopN
                      /\ \A i \in DOMAIN l : RanksBefore(github.repos, l[i], lang)

\* C6 witness: Go, with two repositories, is listed ahead of the languages
\* met before it, and TypeScript ahead of Rust, met after it.
C6_Witness ==
    /\ Displayed
    /\ variant = "languages"
    /\ github.repos = <<RepoC, RepoA, RepoD, RepoF>>
    /\ data.stats.topLanguages = "Go, TypeScript, Rust"

\* A fetch that rejected or was answered with a non-success status.
FetchFailed(response) ==
    \/ response = Rejected
    \/ response.state = "fulfilled" /\ ~response.ok

\* C7: once the profile fetch or the repository fetch of a lookup has failed,
\* no step of that lookup stores a result or goes on to a further request,
\* and the lookup ends in the failure state.
C7_EitherFailureFailsLookup ==
    [][(pc = "awaitAll" /\ (FetchFailed(userResponse) \/ FetchFailed(reposResponse)))
         => /\ data' = data
            /\ pc' \in {"awaitAll", "idle"}
            /\ pc' = "idle" => (error' = LookupFailed /\ ~loading')]_vars

\* C7 witness: the profile was fetched, the repository list was refused, and
\* the lookup failed with nothing held.
C7_Witness ==
    /\ pc = "idle"
    /\ userResponse = Fulfilled(TRUE, ObjectBody(github.user))
    /\ reposResponse = Fulfilled(FALSE, ErrorBody)
    /\ error = LookupFailed
    /\ IsNull(data)

\* C8: a displayed receipt has a value on every line it shows, the commit
\* count among them, also when the commit search failed.  Stated for the
\* version with the commit search; the receipt of the "size" version never
\* has a value on its 'Served by', fortune and coupon lines.
C8_NoPartialReceipt ==
    (Displayed /\ variant = "commits") => DOMAIN view.receipt = receiptLines

\* C9: after a failed lookup, until the next submission, the failure message
\* is among the texts of the page.
C9_FailureMessageRendered ==
    error = LookupFailed => LookupFailed \in renderedTexts

\* The causes of a lookup failure, at the step that ends the lookup.
FailureCause ==
    \/ pc = "awaitAll" /\ (userResponse = Rejected \/ reposResponse = Rejected)
    \/ /\ pc = "awaitAll"
       /\ userResponse.state = "fulfilled"
       /\ reposResponse.state = "fulfilled"
       /\ \/ ~userResponse.ok
          \/ userResponse.body.kind = "malformed"
          \/ reposResponse.body.kind # "array"
    \/ /\ pc = "awaitCommits"
       /\ \/ commitsResponse = Rejected
          \/ commitsResponse.state = "fulfilled" /\ commitsResponse.body.kind = "malformed"

\* C10: the error state is empty or the one message 'User not found', and a
\* lookup that ends on any failure cause leaves that message, with loading
\* off and the held result untouched.
C10_OneErrorKind ==
    /\ [](error \in {"", LookupFailed})
    /\ [][(pc # "idle" /\ pc' = "idle" /\ FailureCause)
            => (error' = LookupFailed /\ ~loading' /\ data' = data)]_vars

\* C10 witness: a profile answer that is not JSON ended the lookup with the
\* message.
C10_Witness ==
    /\ pc = "idle"
    /\ userResponse = Fulfilled(TRUE, MalformedBody)
    /\ error = LookupFailed

\* C11: from the start of a new submission on the result of the previous
\* lookup is no longer held: nothing is held while the new lookup is loading,
\* nor after it has failed.
C11_PreviousResultDiscarded ==
    (loading \/ error = LookupFailed) => IsNull(data)

\* The values getGitHubStats can return to the lookup in flight in the next
\* step: none while a response is awaited or when the lookup fails.
LookupReturns ==
    IF /\ pc = "awaitAll"
       /\ variant # "commits"
       /\ userResponse.state = "fulfilled"
       /\ reposResponse.state = "fulfilled"
    THEN {afterPromiseAll(r1, r2, r3) : r1, r2, r3 \in RandomNums} \ {Threw}
    ELSE IF pc = "awaitCommits" /\ commitsResponse.state = "fulfilled"
    THEN {afterCommits} \ {Threw}
    ELSE {}

\* C12: the held result changes only in the step in which the lookup in flight
\* ends, and when that lookup succeeds the held result is the whole value it
\* returns; no lookup is started while one is in flight, so the lookup that
\* returns is the most recent submission and its result is for the username
\* of that submission.
C12_ReplacedWholesale ==
    /\ [][data' # data => (pc # "idle" /\ pc' = "idle")]_vars
    /\ [][(pc # "idle" /\ pc' = "idle" /\ error' = "") =>
            /\ data' \in LookupReturns
            /\ data'.userData.login = arg]_vars
    /\ [][pc # "idle" =>
            /\ arg' = arg
            /\ sent'.user = sent.user
            /\ sent'.repos = sent.repos]_vars

\* C12 witness: after a successful lookup and a later failed one, the result
\* of the successful lookup is held.
C12_Witness ==
    /\ pc = "idle"
    /\ error = LookupFailed
    /\ arg = "ghost"
    /\ Displayed
    /\ data.userData.login = Login

\* The repositories of a list last pushed to in the RecentDays days that end
\* at now.
PushedInWindow(list) ==
    {i \in DOMAIN list :
        /\ list[i].pushed_at > now - RecentDays * HoursPerDay
        /\ list[i].pushed_at <= now}

\* C13: the recency count is the number of repositories whose last push is
\* later than now minus 30 days and not later than now.
C13_PushedInLast30Days ==
    (Displayed /\ variant = "languages") =>
        data.stats.recentActivity = Cardinality(PushedInWindow(github.repos))

\* C14: a file saved from the receipt, and an export under way, is named
\* github-receipt-<login>.png after the login of the profile held, whatever
\* the username input contains; the name with 'user' is not used while a
\* profile login is held.
C14_DownloadNamedAfterLogin ==
    \A file \in {toPng, download} \ {Null} :
        /\ Displayed
        /\ file.name = "github-receipt-" \o data.userData.login \o ".png"
        /\ file.name # "github-receipt-user.png"

\* C14 witness: a file was saved while the input held another username.
C14_Witness ==
    /\ download # Null
    /\ download.name = "github-receipt-octocat.png"
    /\ username = "ghost"
    /\ toPng = Null

\* A request that has been answered or has failed.
Answered(response) == response.state \in {"rejected", "fulfilled"}

\* C15: of each request at most one is issued per submission; during a lookup
\* an answered or failed request is not issued again; and once the lookup has
\* ended no request is issued before the next submission.
C15_NoRequestReissued ==
    /\ [](\A k \in DOMAIN sent : sent[k] <= 1)
    /\ [][pc # "idle" =>
            /\ Answered(userResponse) => userResponse' = userResponse
            /\ Answered(reposResponse) => reposResponse' = reposResponse
            /\ Answered(commitsResponse) => commitsResponse' = commitsResponse]_vars
    /\ [][(pc = "idle" /\ pc' = "idle") =>
            /\ sent' = sent
            /\ \A r \in {<<userResponse, userResponse'>>, <<reposResponse, reposResponse'>>,
                         <<commitsResponse, commitsResponse'>>} :
                  r[2] = Pending => r[1] = Pending]_vars

\* C15 witness: a lookup has failed on a rejected profile request and a
\* refused repository request, each sent once, with no commit search.
C15_Witness ==
    /\ pc = "idle"
    /\ error = LookupFailed
    /\ userResponse = Rejected
    /\ FetchFailed(reposResponse)
    /\ reposResponse # Rejected
    /\ sent = [user |-> 1, repos |-> 1, commits |-> 0]

\* The elements of a list.
Elements(list) == {list[i] : i \in DOMAIN list}

\* The non-empty strings over 0-9 and A-Z as long as the fractions of RandDen
\* allow, one or two characters, all of them within the 6 of substring(2, 8).
CouponCodes ==
    {join(w, "") : w \in {<<a>> : a \in Elements(UpperDigits)} \cup
                         {<<a, b>> : a, b \in Elements(UpperDigits)}}

\* C16: the decorative fields of a result are non-empty values of their set:
\* the name one of the developer list, the fortune one of the fortune list,
\* the coupon code a non-empty string over 0-9 and A-Z.
C16_DecorativeFieldsInRange ==
    Displayed =>
        LET st == data.stats
        IN  /\ "serverName" \in DOMAIN st => st.serverName \in Elements(FAMOUS_DEVS)
            /\ "cashier" \in DOMAIN st => st.cashier \in Elements(FAMOUS_DEVS)
            /\ "randomFortune" \in DOMAIN st =>
                  st.randomFortune \in Elements(FORTUNE_MESSAGES)
            /\ "couponCode" \in DOMAIN st =>
                  (st.couponCode # "" /\ st.couponCode \in CouponCodes)

\* C17: in the version with a commit count, a commit-search request has been
\* sent only if the profile and the repository list have both been answered
\* and the profile answer is a success, and the held result changes only once
\* the answer of the commit search has been read.
C17_CommitSearchLast ==
    /\ [](variant = "commits" /\ commitsResponse # NoRequest =>
            /\ userResponse.state = "fulfilled"
            /\ userResponse.ok
            /\ reposResponse.state = "fulfilled")
    /\ [][(variant = "commits" /\ data' # data) =>
            /\ pc = "awaitCommits"
            /\ commitsResponse.state = "fulfilled"
            /\ ~HasThrown(json(commitsResponse))]_vars

\* C17 witness: the commit search was sent after the two answers and its
\* count is in the held result.
C17_Witness ==
    /\ variant = "commits"
    /\ pc = "idle"
    /\ sent.commits = 1
    /\ commitsResponse.state = "fulfilled"
    /\ Displayed
    /\ "totalCommits" \in DOMAIN data.stats
    /\ data.stats.totalCommits = 42

\* A fetch of the lookup has not been answered yet.
FetchPending ==
    Pending \in {userResponse, reposResponse, commitsResponse}

\* The promise the lookup awaits has settled: Promise.all on the first
\* rejection or on the second answer, the commit search on its answer.
AwaitSettled ==
    \/ /\ pc = "awaitAll"
       /\ \/ Rejected \in {userResponse, reposResponse}
          \/ Answered(userResponse) /\ Answered(reposResponse)
    \/ pc = "awaitCommits" /\ Answered(commitsResponse)

\* C18 as stated: loading is true as long as a fetch of the lookup is pending.
C18_LoadingWhileFetchPending ==
    FetchPending => loading

\* C18: loading is true exactly while a lookup is in flight; it is set by a
\* submission with a non-empty username, which issues the fetches; it is
\* cleared only when the promise the lookup awaits has settled, with the
\* failure recorded or the result held; and when every fetch is answered in
\* the end, loading becomes false.
C18_LoadingWhileInFlight ==
    /\ [](loading <=> pc # "idle")
    /\ [][(~loading /\ loading') =>
            /\ username # ""
            /\ arg' = username
            /\ userResponse' = Pending
            /\ reposResponse' = Pending]_vars
    /\ [][(loading /\ ~loading') =>
            /\ AwaitSettled
            /\ error' = LookupFailed \/ data' \in LookupReturns]_vars
    /\ loading ~> ~loading

\* C18 witness: the profile request was rejected and the lookup has failed,
\* loading is false, and the repository request is still pending.
C18_Witness ==
    /\ ~loading
    /\ pc = "idle"
    /\ error = LookupFailed
    /\ userResponse = Rejected
    /\ reposResponse = Pending

\* C19: while loading is true no submission starts: the username of the
\* lookup in flight stays the one submitted when loading was set, its
\* requests are not issued afresh, and the result stored when it completes is
\* the profile of that username.
C19_OneLookupInFlight ==
    /\ [][(~loading /\ loading') => arg' = username]_vars
    /\ [][loading =>
            /\ arg' = arg
            /\ userResponse' = Pending => userResponse = Pending
            /\ reposResponse' = Pending => reposResponse = Pending
            /\ commitsResponse' = NoRequest => commitsResponse = NoRequest
            /\ pc = "awaitCommits" => pc' # "awaitAll"]_vars
    /\ [][(loading /\ data' # data) => data'.userData.login = arg]_vars

\* C19 witness: a lookup is in flight for one username while the input holds
\* another, non-empty one.
C19_Witness ==
    /\ loading
    /\ pc = "awaitCommits"
    /\ arg = Login
    /\ username = "ghost"

\* C20: a submission with an empty username sends no request and leaves
\* loading, the error message, the held result and the lookup in flight as
\* they are.
C20_EmptySubmitNoOp ==
    [][(username = "" /\ dispatched' # dispatched) =>
          UNCHANGED <<loading, error, data, sent, pc, arg,
                      userResponse, reposResponse, commitsResponse>>]_vars

\* C20 witness: the form was submitted with an empty input, and the message
\* of a failed lookup is held.
C20_Witness ==
    /\ dispatched > 0
    /\ username = ""
    /\ pc = "idle"
    /\ error = LookupFailed
    /\ sent = [user |-> 1, repos |-> 1, commits |-> 0]

\* C21: what is passed to the platform share mechanism is the exported image,
\* and only where the mechanism is available; every failure of an export or
\* of sharing is caught, none is left as a rejection without a handler; and
\* while no receipt is displayed nothing is exported, shared, saved or
\* reported.
C21_ShareFailuresCaught ==
    /\ shared # Null =>
          /\ navigatorShare
          /\ Displayed
          /\ shared = shareData(data)
    /\ UncaughtInPromise \notin reported
    /\ ~Displayed =>
          /\ toPng = Null /\ sharing = Null
          /\ shared = Null /\ download = Null
          /\ reported = {}

====
